---------------------------- MODULE Spec2Model ----------------------------
(***************************************************************************)
(* Model of the FordSupportChat component (src/README.md, lines 163-401):  *)
(* the session start, the send of one message, the drain of the response   *)
(* body, the classification of the drained body and the update of the      *)
(* conversation, together with the controls that admit a send.             *)
(*                                                                         *)
(* Strings are sequences of one-character strings, so that trim,           *)
(* startsWith and substring are computed as String.prototype computes      *)
(* them.  A fixed literal of the code is held as one token.                *)
(* A field that a message object does not carry (isStreaming, isError) is  *)
(* FALSE: the code only ever tests these fields for truthiness.            *)
(* React 18 (createRoot, src/ford-support-frontend/src/index.js:7) batches *)
(* the state updates of one synchronous stretch of a handler into one      *)
(* render, so each stretch between two awaits is one action.               *)
(***************************************************************************)
EXTENDS Integers, Sequences, FiniteSets, TLC

VARIABLES
    messages,        \* useState([])    : the conversation
    inputMessage,    \* useState('')    : content of the textarea
    isSending,       \* useState(false) : the latch
    isConnecting,    \* useState(false)
    sessionId,       \* useState(null)
    now,             \* last reading of Date.now()
    inflight,        \* the sendMessage invocations suspended at an await
    startsInFlight,  \* the startChatSession invocations suspended at the fetch
    startCalls,      \* number of POST /session/start issued
    msgCalls,        \* number of POST /session/{id}/message issued
    alerts,          \* number of alert() notices shown
    answered,        \* session_id of the last 2xx answer of /session/start
    lastEvent        \* the last event handled

vars == <<messages, inputMessage, isSending, isConnecting, sessionId, now,
          inflight, startsInFlight, startCalls, msgCalls, alerts, answered,
          lastEvent>>

(* ------------------------------ bounds -------------------------------- *)
MaxClock == 1
MaxSends == 2
MaxStarts == 2

(* ------------------------------ values -------------------------------- *)
NULL == "null"
UNDEF == "undefined"
SessionIds == {"s1", "s2"}
\* what data.session_id can be on a 2xx answer
SessionIdAnswers == SessionIds \cup {"", UNDEF}

Truthy(v) == v \notin {NULL, UNDEF, ""}

WS == {" ", "\n"}

RECURSIVE TrimStart(_)
TrimStart(s) ==
    IF s = <<>> THEN <<>>
    ELSE IF Head(s) \in WS THEN TrimStart(Tail(s)) ELSE s

RECURSIVE TrimEnd(_)
TrimEnd(s) ==
    IF s = <<>> THEN <<>>
    ELSE IF s[Len(s)] \in WS THEN TrimEnd(SubSeq(s, 1, Len(s) - 1)) ELSE s

Trim(s) == TrimEnd(TrimStart(s))

StartsWith(s, p) == Len(s) >= Len(p) /\ SubSeq(s, 1, Len(p)) = p

Substring(s, n) == SubSeq(s, n + 1, Len(s))

Marker == <<"d", "a", "t", "a", ":">>

GreetingText == <<"Welcome! I'm your Ford Customer Support assistant. How can I help?">>
MalformedText == <<"Error: Received malformed response from server.">>
NoResponseText == <<"No response from server.">>

\* the status code is left out of the message
HttpErrorMessage_NoStatus(status, errorText) ==
    <<"HTTP error! message: ">> \o errorText

\* `HTTP error! status: ${response.status}, message: ${errorText}`
HttpErrorMessage(status, errorText) ==
    <<"HTTP error! status: ", status, ", message: ">> \o errorText

\* `Something went wrong: ${error.message}. Please try again.`
TransportText(errorMessage) ==
    <<"Something went wrong: ">> \o errorMessage \o <<". Please try again.">>

(* --------------------- inputs of the environment ---------------------- *)
\* values the user can put in the textarea
InputValues == { <<>>, <<"\n">>, <<" ", "h">> }

\* bodies the message endpoint can stream on a 2xx answer
Bodies ==
    { <<>>,
      <<" ">>,
      <<"d", "a", "t", "a", ":">>,
      <<"d", "a", "t", "a", ":", " ">>,
      <<"d", "a", "t", "a", ":", " ", "H">>,
      <<" ", "d", "a", "t", "a", ":", "H", "\n">>,
      <<"g">>,
      <<"x", "d", "a", "t", "a", ":">> }

BadStatuses == {"500"}
ErrorBodies == { <<"e">> }
\* error.message of an exception thrown by fetch or by reader.read()
NetworkErrors == { <<"Failed to fetch">> }

(* ------------------------------ messages ------------------------------ *)
Msg(id, text, sender, streaming, error) ==
    [id |-> id, text |-> text, sender |-> sender,
     isStreaming |-> streaming, isError |-> error]

\* the state the spec gives a message, read off the fields the code keeps
State(m) ==
    IF m.isStreaming THEN (IF m.text = <<>> THEN "Pending" ELSE "Streaming")
    ELSE IF m.isError THEN "Error"
    ELSE "Complete"

RECURSIVE MapSeq_KeepsStreaming(_, _, _)
\* the update leaves isStreaming as it was
MapSeq_KeepsStreaming(prev, id, upd) ==
    IF prev = <<>> THEN <<>>
    ELSE <<IF Head(prev).id = id
           THEN [Head(prev) EXCEPT !.text = upd.text,
                                   !.isError = IF upd.setError THEN TRUE ELSE @]
           ELSE Head(prev)>> \o MapSeq_KeepsStreaming(Tail(prev), id, upd)

RECURSIVE MapSeq(_, _, _)
\* prev.map(msg => msg.id === id ? f(msg) : msg), f given as the new fields
MapSeq(prev, id, upd) ==
    IF prev = <<>> THEN <<>>
    ELSE <<IF Head(prev).id = id
           THEN [Head(prev) EXCEPT !.text = upd.text,
                                   !.isError = IF upd.setError THEN TRUE ELSE @,
                                   !.isStreaming = FALSE]
           ELSE Head(prev)>> \o MapSeq(Tail(prev), id, upd)

RECURSIVE FilterOut(_, _)
\* prev.filter(msg => !(msg.id === id))
FilterOut(prev, id) ==
    IF prev = <<>> THEN <<>>
    ELSE IF Head(prev).id = id THEN FilterOut(Tail(prev), id)
    ELSE <<Head(prev)>> \o FilterOut(Tail(prev), id)

RemoveAt(s, i) == SubSeq(s, 1, i - 1) \o SubSeq(s, i + 1, Len(s))

(* ------------------------- rendered controls -------------------------- *)
\* the connect card stays rendered once a session exists
ConnectCardShown_Always == TRUE

\* {!sessionId ? <connect card> : <chat box>}
ConnectCardShown == ~Truthy(sessionId)
ChatBoxShown == Truthy(sessionId)
\* the connect button is never disabled
ConnectDisabled_Never == FALSE

\* <button onClick={startChatSession} disabled={isConnecting}>
ConnectDisabled == isConnecting
\* the textarea is never disabled
TextareaDisabled_Never == FALSE

\* <textarea ... disabled={isSending} />
TextareaDisabled == isSending
\* <button onClick={sendMessage} disabled={!inputMessage.trim() || isSending}>
SendButtonDisabled == Trim(inputMessage) = <<>> \/ isSending

(* ------------------------------ initial ------------------------------- *)
Init ==
    /\ messages = <<>>
    /\ inputMessage = <<>>
    /\ isSending = FALSE
    /\ isConnecting = FALSE
    /\ sessionId = NULL
    /\ now = 0
    /\ inflight = <<>>
    /\ startsInFlight = 0
    /\ startCalls = 0
    /\ msgCalls = 0
    /\ alerts = 0
    /\ answered = NULL
    /\ lastEvent = "init"

(* --------------------------- startChatSession ------------------------- *)
\* click on "Connect to Assistant": setIsConnecting(true), then the fetch
startChatSession ==
    /\ isConnecting' = TRUE
    /\ startsInFlight' = startsInFlight + 1
    /\ startCalls' = startCalls + 1
    /\ UNCHANGED <<messages, inputMessage, isSending, sessionId, now,
                   inflight, msgCalls, alerts, answered>>

ClickConnect ==
    /\ ConnectCardShown
    /\ ~ConnectDisabled
    /\ startCalls < MaxStarts
    /\ startChatSession
    /\ lastEvent' = "connect"

\* the greeting is appended to the conversation instead of replacing it
StartOk_AppendsGreeting(sid, t) ==
    /\ startsInFlight > 0
    /\ answered' = sid
    /\ sessionId' = sid
    /\ messages' = Append(messages, Msg(t, GreetingText, "bot", FALSE, FALSE))
    /\ now' = t
    /\ isConnecting' = FALSE
    /\ startsInFlight' = startsInFlight - 1
    /\ lastEvent' = "startOk"
    /\ UNCHANGED <<inputMessage, isSending, inflight, startCalls, msgCalls,
                   alerts>>

\* the session endpoint answers 2xx and the body parses
StartOk(sid, t) ==
    /\ startsInFlight > 0
    /\ answered' = sid
    /\ sessionId' = sid
    /\ messages' = << Msg(t, GreetingText, "bot", FALSE, FALSE) >>
    /\ now' = t
    /\ isConnecting' = FALSE
    /\ startsInFlight' = startsInFlight - 1
    /\ lastEvent' = "startOk"
    /\ UNCHANGED <<inputMessage, isSending, inflight, startCalls, msgCalls,
                   alerts>>

\* a failed start is tried again at once
StartFail_Retries ==
    /\ startsInFlight > 0
    /\ startCalls < MaxStarts
    /\ alerts' = alerts + 1
    /\ sessionId' = NULL
    /\ startCalls' = startCalls + 1
    /\ lastEvent' = "startFail"
    /\ UNCHANGED <<messages, inputMessage, isSending, now, inflight,
                   startsInFlight, msgCalls, answered, isConnecting>>

\* the finally block is missing: the connecting flag stays set
StartFail_StaysConnecting ==
    /\ startsInFlight > 0
    /\ alerts' = alerts + 1
    /\ sessionId' = NULL
    /\ startsInFlight' = startsInFlight - 1
    /\ lastEvent' = "startFail"
    /\ UNCHANGED <<messages, inputMessage, isSending, now, inflight,
                   startCalls, msgCalls, answered, isConnecting>>

\* the fetch throws, the status is not 2xx, or response.json() throws
StartFail ==
    /\ startsInFlight > 0
    /\ alerts' = alerts + 1
    /\ sessionId' = NULL
    /\ isConnecting' = FALSE
    /\ startsInFlight' = startsInFlight - 1
    /\ lastEvent' = "startFail"
    /\ UNCHANGED <<messages, inputMessage, isSending, now, inflight,
                   startCalls, msgCalls, answered>>

(* ------------------------------ sendMessage --------------------------- *)
\* the state the send and its completion act on
core == <<messages, inputMessage, isSending, sessionId, inflight, msgCalls>>

\* one suspended sendMessage: the constants of its closure and its position
\* (pc: "fetch" at await fetch, "text" at await response.text(), "read" at
\* await reader.read()); body is what the endpoint streams, rest the part
\* of it not yet delivered
Invocation(phId, sid, text, len) ==
    [phId |-> phId, sid |-> sid, message |-> text, pc |-> "fetch",
     status |-> "none", body |-> <<>>, rest |-> <<>>, buffer |-> <<>>,
     lenBefore |-> len]

\* the user message carries the trimmed input
sendMessage_TrimsText(t1, t2) ==
    IF Trim(inputMessage) = <<>> \/ ~Truthy(sessionId)
    THEN UNCHANGED <<core, now>>
    ELSE /\ msgCalls < MaxSends
         /\ messages' = messages \o
                << Msg(t1, Trim(inputMessage), "user", FALSE, FALSE),
                   Msg(t2 + 1, <<>>, "bot", TRUE, FALSE) >>
         /\ inputMessage' = <<>>
         /\ isSending' = TRUE
         /\ inflight' = Append(inflight,
                Invocation(t2 + 1, sessionId, inputMessage, Len(messages)))
         /\ msgCalls' = msgCalls + 1
         /\ now' = t2
         /\ UNCHANGED sessionId

\* sendMessage up to its first await; t1 and t2 are the two readings of
\* Date.now() (user message id, placeholder id)
sendMessage(t1, t2) ==
    IF Trim(inputMessage) = <<>> \/ ~Truthy(sessionId)
    THEN UNCHANGED <<core, now>>
    ELSE /\ msgCalls < MaxSends
         /\ messages' = messages \o
                << Msg(t1, inputMessage, "user", FALSE, FALSE),
                   Msg(t2 + 1, <<>>, "bot", TRUE, FALSE) >>
         /\ inputMessage' = <<>>
         /\ isSending' = TRUE
         /\ inflight' = Append(inflight,
                Invocation(t2 + 1, sessionId, inputMessage, Len(messages)))
         /\ msgCalls' = msgCalls + 1
         /\ now' = t2
         /\ UNCHANGED sessionId

startVars == <<isConnecting, startsInFlight, startCalls, alerts, answered>>

\* click on the send button
ClickSend ==
    /\ ChatBoxShown
    /\ ~SendButtonDisabled
    /\ \E t1 \in now..MaxClock : \E t2 \in t1..MaxClock : sendMessage(t1, t2)
    /\ lastEvent' = "click"
    /\ UNCHANGED startVars

\* the handler sends on Shift+Enter as it does on Enter
handleChatKeyDown_IgnoresShift(shift) ==
    IF Trim(inputMessage) # <<>> /\ ~isSending
    THEN \E t1 \in now..MaxClock : \E t2 \in t1..MaxClock :
             sendMessage(t1, t2)
    ELSE UNCHANGED <<core, now>>

\* handleChatKeyDown for the Enter key; with Shift the handler does nothing
\* (the line break the textarea then inserts arrives as an onChange event,
\* see Type)
handleChatKeyDown(shift) ==
    IF ~shift
    THEN IF Trim(inputMessage) # <<>> /\ ~isSending
         THEN \E t1 \in now..MaxClock : \E t2 \in t1..MaxClock :
                  sendMessage(t1, t2)
         ELSE UNCHANGED <<core, now>>
    ELSE UNCHANGED <<core, now>>

KeyDownEnter ==
    /\ ChatBoxShown
    /\ ~TextareaDisabled
    /\ \E shift \in BOOLEAN :
          /\ handleChatKeyDown(shift)
          /\ lastEvent' = IF shift THEN "shiftEnter" ELSE "enter"
    /\ UNCHANGED startVars

\* onChange={(e) => setInputMessage(e.target.value)}
Type ==
    /\ ChatBoxShown
    /\ ~TextareaDisabled
    /\ \E v \in InputValues : inputMessage' = v
    /\ lastEvent' = "type"
    /\ UNCHANGED <<messages, isSending, sessionId, inflight, msgCalls, now,
                   startVars>>

\* sendMessage invoked with no control in between
CallSendMessage ==
    /\ \E t1 \in now..MaxClock : \E t2 \in t1..MaxClock : sendMessage(t1, t2)
    /\ lastEvent' = "call"
    /\ UNCHANGED startVars

(* ----------------------- completion of a send ------------------------- *)
\* the finally block is missing: the latch stays set
Catch_KeepsLatch(i, errorMessage, t) ==
    /\ messages' = FilterOut(messages, inflight[i].phId) \o
                      << Msg(t + 2, TransportText(errorMessage), "bot",
                             FALSE, TRUE) >>
    /\ now' = t
    /\ inflight' = RemoveAt(inflight, i)
    /\ lastEvent' = "catch"
    /\ UNCHANGED <<inputMessage, sessionId, msgCalls, startVars, isSending>>

\* the catch block and the finally block
Catch(i, errorMessage, t) ==
    /\ messages' = FilterOut(messages, inflight[i].phId) \o
                      << Msg(t + 2, TransportText(errorMessage), "bot",
                             FALSE, TRUE) >>
    /\ now' = t
    /\ isSending' = FALSE
    /\ inflight' = RemoveAt(inflight, i)
    /\ lastEvent' = "catch"
    /\ UNCHANGED <<inputMessage, sessionId, msgCalls, startVars>>

\* fetch resolves with a 2xx response
FetchOk ==
    \E i \in DOMAIN inflight : \E body \in Bodies :
        /\ inflight[i].pc = "fetch"
        /\ inflight' = [inflight EXCEPT ![i].pc = "read", ![i].status = "200",
                                        ![i].body = body, ![i].rest = body]
        /\ lastEvent' = "fetchOk"
        /\ UNCHANGED <<messages, inputMessage, isSending, sessionId, msgCalls,
                       now, startVars>>

\* fetch resolves with a non-2xx response: await response.text()
FetchNotOk ==
    \E i \in DOMAIN inflight : \E st \in BadStatuses : \E et \in ErrorBodies :
        /\ inflight[i].pc = "fetch"
        /\ inflight' = [inflight EXCEPT ![i].pc = "text", ![i].status = st,
                                        ![i].body = et, ![i].rest = et]
        /\ lastEvent' = "fetchNotOk"
        /\ UNCHANGED <<messages, inputMessage, isSending, sessionId, msgCalls,
                       now, startVars>>

\* response.text() resolves: throw new Error(`HTTP error! ...`)
TextOk ==
    \E i \in DOMAIN inflight : \E t \in now..MaxClock :
        /\ inflight[i].pc = "text"
        /\ Catch(i, HttpErrorMessage(inflight[i].status, inflight[i].body), t)

\* response.text() rejects
TextThrow ==
    \E i \in DOMAIN inflight : \E e \in NetworkErrors : \E t \in now..MaxClock :
        /\ inflight[i].pc = "text"
        /\ Catch(i, e, t)

\* fetch rejects
FetchThrow ==
    \E i \in DOMAIN inflight : \E e \in NetworkErrors : \E t \in now..MaxClock :
        /\ inflight[i].pc = "fetch"
        /\ Catch(i, e, t)

\* each chunk is shown at once: the placeholder takes the buffer as text
ReadChunk_ShowsPartial ==
    \E i \in DOMAIN inflight :
        /\ inflight[i].pc = "read"
        /\ \E k \in 1..Len(inflight[i].rest) :
              /\ inflight' = [inflight EXCEPT
                     ![i].buffer = @ \o SubSeq(inflight[i].rest, 1, k),
                     ![i].rest = Substring(@, k)]
              /\ messages' = MapSeq_KeepsStreaming(messages, inflight[i].phId,
                     [text |-> inflight[i].buffer \o
                                  SubSeq(inflight[i].rest, 1, k),
                      setError |-> FALSE])
        /\ lastEvent' = "chunk"
        /\ UNCHANGED <<inputMessage, isSending, sessionId, msgCalls,
                       now, startVars>>

\* the chunk replaces the buffer: buffer = decoder.decode(value)
ReadChunk_Overwrites ==
    \E i \in DOMAIN inflight :
        /\ inflight[i].pc = "read"
        /\ \E k \in 1..Len(inflight[i].rest) :
              inflight' = [inflight EXCEPT
                  ![i].buffer = SubSeq(inflight[i].rest, 1, k),
                  ![i].rest = Substring(@, k)]
        /\ lastEvent' = "chunk"
        /\ UNCHANGED <<messages, inputMessage, isSending, sessionId, msgCalls,
                       now, startVars>>

\* reader.read() yields a chunk: buffer += decoder.decode(value)
ReadChunk ==
    \E i \in DOMAIN inflight :
        /\ inflight[i].pc = "read"
        /\ \E k \in 1..Len(inflight[i].rest) :
              inflight' = [inflight EXCEPT
                  ![i].buffer = @ \o SubSeq(inflight[i].rest, 1, k),
                  ![i].rest = Substring(@, k)]
        /\ lastEvent' = "chunk"
        /\ UNCHANGED <<messages, inputMessage, isSending, sessionId, msgCalls,
                       now, startVars>>

\* reader.read() rejects
ReadThrow ==
    \E i \in DOMAIN inflight : \E e \in NetworkErrors : \E t \in now..MaxClock :
        /\ inflight[i].pc = "read"
        /\ Catch(i, e, t)

\* the content is not trimmed after the marker is cut off
Outcome_NoTrim(buffer) ==
    LET messageBlock == Trim(buffer) IN
    IF StartsWith(messageBlock, Marker)
    THEN [text |-> Substring(messageBlock, 5), setError |-> FALSE]
    ELSE IF messageBlock # <<>>
    THEN [text |-> MalformedText, setError |-> TRUE]
    ELSE [text |-> NoResponseText, setError |-> TRUE]

\* the branch for a body without the marker is missing
Outcome_NoMalformedBranch(buffer) ==
    LET messageBlock == Trim(buffer) IN
    IF StartsWith(messageBlock, Marker)
    THEN [text |-> Trim(Substring(messageBlock, 5)), setError |-> FALSE]
    ELSE [text |-> NoResponseText, setError |-> TRUE]

\* the branch for an empty body is missing
Outcome_NoEmptyBranch(buffer) ==
    LET messageBlock == Trim(buffer) IN
    IF StartsWith(messageBlock, Marker)
    THEN [text |-> Trim(Substring(messageBlock, 5)), setError |-> FALSE]
    ELSE [text |-> MalformedText, setError |-> TRUE]

\* an empty payload after the marker is taken for no response
Outcome_EmptyPayloadAsNoResponse(buffer) ==
    LET messageBlock == Trim(buffer) IN
    IF StartsWith(messageBlock, Marker)
          /\ Trim(Substring(messageBlock, 5)) # <<>>
    THEN [text |-> Trim(Substring(messageBlock, 5)), setError |-> FALSE]
    ELSE IF messageBlock # <<>> /\ ~StartsWith(messageBlock, Marker)
    THEN [text |-> MalformedText, setError |-> TRUE]
    ELSE [text |-> NoResponseText, setError |-> TRUE]

\* the fields the placeholder takes for a drained buffer
Outcome(buffer) ==
    LET messageBlock == Trim(buffer) IN
    IF StartsWith(messageBlock, Marker)
    THEN [text |-> Trim(Substring(messageBlock, 5)), setError |-> FALSE]
    ELSE IF messageBlock # <<>>
    THEN [text |-> MalformedText, setError |-> TRUE]
    ELSE [text |-> NoResponseText, setError |-> TRUE]

\* the latch is not released at end of stream
ReadDone_KeepsLatch ==
    \E i \in DOMAIN inflight :
        /\ inflight[i].pc = "read"
        /\ inflight[i].rest = <<>>
        /\ messages' = MapSeq(messages, inflight[i].phId,
                              Outcome(inflight[i].buffer))
        /\ inflight' = RemoveAt(inflight, i)
        /\ lastEvent' = "done"
        /\ UNCHANGED <<inputMessage, sessionId, msgCalls, now, startVars,
                       isSending>>

\* reader.read() yields done: classify the buffer, update, finally
ReadDone ==
    \E i \in DOMAIN inflight :
        /\ inflight[i].pc = "read"
        /\ inflight[i].rest = <<>>
        /\ messages' = MapSeq(messages, inflight[i].phId,
                              Outcome(inflight[i].buffer))
        /\ isSending' = FALSE
        /\ inflight' = RemoveAt(inflight, i)
        /\ lastEvent' = "done"
        /\ UNCHANGED <<inputMessage, sessionId, msgCalls, now, startVars>>

(* --------------------------- specification ---------------------------- *)
StartAnswer ==
    \/ \E sid \in SessionIdAnswers : \E t \in now..MaxClock : StartOk(sid, t)
    \/ StartFail

Next ==
    \/ ClickConnect
    \/ StartAnswer
    \/ Type
    \/ ClickSend
    \/ KeyDownEnter
    \/ CallSendMessage
    \/ FetchOk
    \/ FetchNotOk
    \/ TextOk
    \/ TextThrow
    \/ FetchThrow
    \/ ReadChunk
    \/ ReadThrow
    \/ ReadDone

Spec == Init /\ [][Next]_vars

TypeOK ==
    /\ isSending \in BOOLEAN
    /\ isConnecting \in BOOLEAN
    /\ now \in 0..MaxClock
    /\ msgCalls \in 0..MaxSends
    /\ startCalls \in 0..MaxStarts

(* ============================== claims ================================ *)
\* the admission rule of the spec
GateClosed ==
    Trim(inputMessage) = <<>> \/ ~Truthy(sessionId) \/ isSending

\* the events that invoke send: button click, Enter key, direct call
SendEvents == {"click", "enter", "call"}

StreamingPositions == {i \in DOMAIN messages : messages[i].isStreaming}

\* C1: a send attempted through any entry point while the input is blank,
\* no session exists or a send is outstanding changes neither the
\* conversation, the input, the latch nor the session, and issues no call.
C1_SendNoOp ==
    [][(GateClosed /\ lastEvent' \in SendEvents) =>
          UNCHANGED <<messages, inputMessage, isSending, sessionId,
                      inflight, msgCalls>>]_vars

\* a direct call of sendMessage was made while a send was outstanding
C1_Witness ==
    /\ lastEvent = "call"
    /\ isSending
    /\ Len(inflight) = 1
    /\ msgCalls = 1

\* C2: in every reachable state at most one message of the conversation
\* has isStreaming = true.
C2_AtMostOneStreaming == Cardinality(StreamingPositions) <= 1

\* the second send is in flight, the first has completed
C2_Witness ==
    /\ msgCalls = 2
    /\ Cardinality(StreamingPositions) = 1
    /\ Len(messages) = 5

\* C3: when the drained body, trimmed, begins with data:, the placeholder
\* is updated where it stands: same id, same position, text the trimmed
\* remainder after the marker, state Complete; the conversation ends with
\* the Complete User message followed by that Complete Bot message.
C3_SuccessInPlace ==
    [][(/\ lastEvent' = "done"
        /\ Len(inflight) = 1
        /\ StartsWith(Trim(inflight[1].buffer), Marker)) =>
          LET inv == inflight[1]
              p == inv.lenBefore + 2
          IN /\ Len(messages) = p
             /\ messages[p].id = inv.phId
             /\ State(messages[p]) = "Pending"
             /\ Len(messages') = p
             /\ messages'[p].id = inv.phId
             /\ messages'[p].sender = "bot"
             /\ State(messages'[p]) = "Complete"
             /\ \E x \in {Substring(Trim(inv.buffer), n) : n \in 0..Len(inv.buffer)} :
                   /\ Trim(inv.buffer) = Marker \o x
                   /\ messages'[p].text = Trim(x)
                   /\ messages'[p].text = <<>> \/
                         (/\ messages'[p].text[1] \notin WS
                          /\ messages'[p].text[Len(messages'[p].text)] \notin WS)
             /\ messages'[p - 1].sender = "user"
             /\ messages'[p - 1].text = inv.message
             /\ State(messages'[p - 1]) = "Complete"]_vars

\* input " h", body "data: H": User "h" (Complete), Bot "H" (Complete)
C3_Witness ==
    /\ lastEvent = "done"
    /\ Len(messages) = 3
    /\ messages[2].text = <<" ", "h">> /\ messages[2].sender = "user"
    /\ messages[3].text = <<"H">> /\ messages[3].sender = "bot"
    /\ State(messages[3]) = "Complete"
    /\ ~isSending

\* C4: when the network call of a send throws, the placeholder is absent
\* from the conversation, a new Error Bot message with another id is the
\* last message, and the conversation is exactly 2 longer than before the
\* send.
C4_TransportReplaces ==
    [][(lastEvent' = "catch" /\ Len(inflight) = 1) =>
          LET inv == inflight[1]
              n == Len(messages')
          IN /\ \A j \in DOMAIN messages' : messages'[j].id # inv.phId
             /\ n >= 1
             /\ messages'[n].sender = "bot"
             /\ State(messages'[n]) = "Error"
             /\ messages'[n].id # inv.phId
             /\ n = inv.lenBefore + 2]_vars

\* C5: when the trimmed drained body is non-empty and does not begin with
\* data:, the placeholder is updated where it stands (same id, same
\* position) to the malformed-response literal in state Error.
C5_MalformedInPlace ==
    [][(/\ lastEvent' = "done"
        /\ Len(inflight) = 1
        /\ Trim(inflight[1].buffer) # <<>>
        /\ ~StartsWith(Trim(inflight[1].buffer), Marker)) =>
          LET inv == inflight[1]
              p == inv.lenBefore + 2
          IN /\ Len(messages) = p
             /\ messages[p].id = inv.phId
             /\ State(messages[p]) = "Pending"
             /\ Len(messages') = p
             /\ messages'[p].id = inv.phId
             /\ messages'[p].sender = "bot"
             /\ messages'[p].text =
                   <<"Error: Received malformed response from server.">>
             /\ State(messages'[p]) = "Error"]_vars

\* body "g": the Bot message is an Error with the malformed literal
C5_Witness ==
    /\ lastEvent = "done"
    /\ Len(messages) = 3
    /\ messages[3].text = <<"Error: Received malformed response from server.">>
    /\ messages[3].isError
    /\ ~messages[3].isStreaming

\* C6: when the trimmed drained body is empty, the placeholder is updated
\* where it stands (same id, same position) to the no-response literal in
\* state Error.
C6_EmptyInPlace ==
    [][(/\ lastEvent' = "done"
        /\ Len(inflight) = 1
        /\ Trim(inflight[1].buffer) = <<>>) =>
          LET inv == inflight[1]
              p == inv.lenBefore + 2
          IN /\ Len(messages) = p
             /\ messages[p].id = inv.phId
             /\ State(messages[p]) = "Pending"
             /\ Len(messages') = p
             /\ messages'[p].id = inv.phId
             /\ messages'[p].sender = "bot"
             /\ messages'[p].text = <<"No response from server.">>
             /\ State(messages'[p]) = "Error"]_vars

\* an empty or blank body: the Bot message is an Error with the literal
C6_Witness ==
    /\ lastEvent = "done"
    /\ Len(messages) = 3
    /\ messages[3].text = <<"No response from server.">>
    /\ messages[3].isError
    /\ ~messages[3].isStreaming

\* C7: after a start answered 2xx with a session id, the session is that
\* id and the conversation is exactly the greeting: one Complete Bot
\* message.
C7_StartSeedsGreeting ==
    [][(lastEvent' = "startOk" /\ Truthy(answered')) =>
          /\ sessionId' = answered'
          /\ Truthy(sessionId')
          /\ Len(messages') = 1
          /\ messages'[1].sender = "bot"
          /\ State(messages'[1]) = "Complete"
          /\ messages'[1].text =
                <<"Welcome! I'm your Ford Customer Support assistant. How can I help?">>]_vars

\* a start has just succeeded, after an earlier one that did not
C7_Witness ==
    /\ lastEvent = "startOk"
    /\ sessionId \in SessionIds
    /\ startCalls = 2
    /\ Len(messages) = 1

\* C8: when a start fails, the session is unset, the conversation is what
\* it was, a notice is shown outside the conversation, the connecting flag
\* is cleared so that the connect button can be used again, and no further
\* session call has been issued.
C8_StartFailure ==
    [][lastEvent' = "startFail" =>
          /\ sessionId' = NULL
          /\ messages' = messages
          /\ alerts' = alerts + 1
          /\ ~isConnecting'
          /\ ~Truthy(sessionId') /\ ~isConnecting'
          /\ startCalls' = startCalls
          /\ startsInFlight' = 0]_vars

\* the first start has failed
C8_Witness ==
    /\ lastEvent = "startFail"
    /\ startCalls = 1
    /\ alerts = 1
    /\ messages = <<>>
    /\ sessionId = NULL

\* C9: a session id, once assigned, is the same in every later state, and
\* every message call in flight carries it.
C9_SessionIdImmutable ==
    [][/\ Truthy(sessionId) => sessionId' = sessionId
       /\ \A i \in DOMAIN inflight' :
             inflight'[i].sid = sessionId' /\ Truthy(sessionId')]_vars

\* the second message call of a session obtained at the second start
C9_Witness ==
    /\ sessionId \in SessionIds
    /\ startCalls = 2
    /\ msgCalls = 2
    /\ Len(inflight) = 1
    /\ inflight[1].sid = sessionId

\* C10: the ids of the conversation are unique and increase strictly in
\* the order the messages were created, whatever non-decreasing readings
\* the clock gives.
C10_IdsStrictlyIncreasing ==
    \A i, j \in DOMAIN messages :
        i < j => messages[i].id < messages[j].id

Terminal == {"Complete", "Error"}

\* C11: within a session, a message that is Complete or Error is the same
\* (text, state, id, sender, position) in every later state; so a
\* placeholder leaves Pending once and is never touched again.
C11_TerminalFrozen ==
    [][Truthy(sessionId) =>
          \A i \in DOMAIN messages :
              State(messages[i]) \in Terminal =>
                  /\ i \in DOMAIN messages'
                  /\ messages'[i] = messages[i]]_vars

\* C12: applying the outcome of a send leaves every message other than the
\* placeholder of that send in place and unaltered.
C12_OnlyPlaceholderTouched ==
    [][(lastEvent' \in {"done", "catch"} /\ Len(inflight) = 1) =>
          LET p == inflight[1].lenBefore + 2
          IN \A i \in 1..(p - 1) :
                /\ i \in DOMAIN messages'
                /\ messages'[i] = messages[i]]_vars

\* C13: a non-empty conversation is the greeting followed by consecutive
\* (User, Bot) pairs, and only the last message can be non-terminal.
C13_StrictPairs ==
    messages # <<>> =>
        /\ messages[1].sender = "bot"
        /\ State(messages[1]) = "Complete"
        /\ Len(messages) % 2 = 1
        /\ \A k \in 1..((Len(messages) - 1) \div 2) :
              /\ messages[2 * k].sender = "user"
              /\ messages[2 * k + 1].sender = "bot"
        /\ \A i \in 1..(Len(messages) - 1) : State(messages[i]) \in Terminal

\* C14: an admitted send extends the conversation by a Complete User
\* message with the typed text and a Pending Bot placeholder with empty
\* text and sets the latch; as long as the call is in flight these two are
\* the last messages and the latch stays set.
C14_OptimisticAppend ==
    [][/\ msgCalls' # msgCalls =>
             LET n == Len(messages)
             IN /\ Len(messages') = n + 2
                /\ SubSeq(messages', 1, n) = messages
                /\ messages'[n + 1].sender = "user"
                /\ messages'[n + 1].text = inputMessage
                /\ State(messages'[n + 1]) = "Complete"
                /\ messages'[n + 2].sender = "bot"
                /\ messages'[n + 2].text = <<>>
                /\ State(messages'[n + 2]) = "Pending"
                /\ isSending'
       /\ Len(inflight') = 1 =>
             LET inv == inflight'[1]
                 p == inv.lenBefore + 2
             IN /\ isSending'
                /\ Len(messages') = p
                /\ messages'[p - 1].sender = "user"
                /\ messages'[p - 1].text = inv.message
                /\ State(messages'[p - 1]) = "Complete"
                /\ messages'[p].sender = "bot"
                /\ messages'[p].id = inv.phId
                /\ messages'[p].text = <<>>
                /\ State(messages'[p]) = "Pending"]_vars

\* the stream of the first send is half read: the conversation still shows
\* the User message and the Pending placeholder
C14_Witness ==
    /\ Len(inflight) = 1
    /\ inflight[1].pc = "read"
    /\ inflight[1].buffer # <<>>
    /\ inflight[1].rest # <<>>
    /\ isSending
    /\ Len(messages) = 3
    /\ messages[2].text = <<" ", "h">>
    /\ State(messages[3]) = "Pending"

\* rows 2 to 4 of the decision table of the spec, for a drained body
Expected(body) ==
    LET b == Trim(body) IN
    IF StartsWith(b, Marker)
    THEN [state |-> "Complete", text |-> Trim(Substring(b, Len(Marker)))]
    ELSE IF b # <<>>
    THEN [state |-> "Error",
          text |-> <<"Error: Received malformed response from server.">>]
    ELSE [state |-> "Error", text |-> <<"No response from server.">>]

\* C15: the arrival of the response and of each chunk leaves the
\* conversation as it is (placeholder Pending, empty text); at end of
\* stream the buffer is the whole body and the outcome applied is the one
\* the whole body decides.
C15_WholeResponse ==
    [][/\ lastEvent' \in {"fetchOk", "chunk"} =>
             /\ messages' = messages
             /\ isSending'
             /\ Len(inflight') = 1
             /\ State(messages'[inflight'[1].lenBefore + 2]) = "Pending"
       /\ (lastEvent' = "done" /\ Len(inflight) = 1) =>
             LET inv == inflight[1]
                 p == inv.lenBefore + 2
             IN /\ inv.buffer = inv.body
                /\ State(messages'[p]) = Expected(inv.body).state
                /\ messages'[p].text = Expected(inv.body).text]_vars

\* the buffer already begins with the marker, more of the body is to
\* come, and the placeholder is still Pending
C15_Witness ==
    /\ lastEvent = "chunk"
    /\ Len(inflight) = 1
    /\ StartsWith(inflight[1].buffer, Marker)
    /\ inflight[1].rest # <<>>
    /\ State(messages[Len(messages)]) = "Pending"

\* text holds the token a and, in one piece, the sequence b
Carries(text, a, b) ==
    /\ \E i \in DOMAIN text : text[i] = a
    /\ \E i \in 0..(Len(text) - Len(b)) : SubSeq(text, i + 1, i + Len(b)) = b

NoPending(msgs) == \A j \in DOMAIN msgs : ~msgs[j].isStreaming

\* C16 as stated: after a non-2xx answer of the message endpoint the send
\* ends with no Pending message and with an Error Bot message last whose
\* text carries the status code and the response body text.
C16_NonOkSurfaced ==
    [][(lastEvent' = "catch" /\ Len(inflight) = 1
           /\ inflight[1].pc = "text") =>
          LET inv == inflight[1]
              n == Len(messages')
          IN /\ NoPending(messages')
             /\ messages'[n].sender = "bot"
             /\ State(messages'[n]) = "Error"
             /\ Carries(messages'[n].text, inv.status, inv.body)]_vars

\* C16 as amended: the same, except that when reading the body of the
\* non-2xx response throws, the text carries the message of that exception
\* instead of the status code and the body text.
C16_NonOkSurfacedOrReadError ==
    [][(lastEvent' = "catch" /\ Len(inflight) = 1
           /\ inflight[1].pc = "text") =>
          LET inv == inflight[1]
              n == Len(messages')
          IN /\ NoPending(messages')
             /\ ~isSending'
             /\ messages'[n].sender = "bot"
             /\ State(messages'[n]) = "Error"
             /\ \/ messages'[n].text =
                      <<"Something went wrong: ", "HTTP error! status: ",
                        inv.status, ", message: ">> \o inv.body \o
                      <<". Please try again.">>
                \/ \E e \in NetworkErrors :
                      messages'[n].text =
                         <<"Something went wrong: ">> \o e \o
                         <<". Please try again.">>]_vars

\* a send answered 500 with body "e" has ended
C16_Witness ==
    /\ lastEvent = "catch"
    /\ ~isSending
    /\ Len(messages) = 3
    /\ State(messages[3]) = "Error"
    /\ Carries(messages[3].text, "500", <<"e">>)

\* C17: a message call is issued only by a send event and a session call
\* only by a click on the connect button, one per event; no outcome of a
\* send or of a start issues a call.
C17_NoRetry ==
    [][/\ msgCalls' # msgCalls =>
             /\ msgCalls' = msgCalls + 1
             /\ lastEvent' \in SendEvents
             /\ Len(inflight') = Len(inflight) + 1
       /\ startCalls' # startCalls =>
             /\ startCalls' = startCalls + 1
             /\ lastEvent' = "connect"
             /\ startsInFlight' = startsInFlight + 1
       /\ lastEvent' \in {"done", "catch"} =>
             /\ msgCalls' = msgCalls
             /\ Len(inflight') = Len(inflight) - 1
             /\ UNCHANGED <<startCalls, startsInFlight>>
       /\ lastEvent' \in {"startOk", "startFail"} =>
             /\ startCalls' = startCalls
             /\ startsInFlight' = startsInFlight - 1
             /\ UNCHANGED <<msgCalls, inflight>>]_vars

\* a start has failed, a later one succeeded and a send has failed: two
\* session calls and one message call were issued, none is in flight
C17_Witness ==
    /\ lastEvent = "catch"
    /\ alerts = 1
    /\ startCalls = 2
    /\ msgCalls = 1
    /\ inflight = <<>>
    /\ startsInFlight = 0

\* C18: Enter without Shift sends only when the input is not blank, no
\* send is outstanding and a session exists; Shift+Enter never sends.
C18_KeyboardRule ==
    [][/\ (lastEvent' = "enter" /\ msgCalls' # msgCalls) => ~GateClosed
       /\ lastEvent' = "shiftEnter" =>
             UNCHANGED <<messages, inputMessage, isSending, sessionId,
                         inflight, msgCalls>>]_vars

\* Shift+Enter was pressed with the gate open and nothing was sent
C18_Witness ==
    /\ lastEvent = "shiftEnter"
    /\ ~GateClosed
    /\ msgCalls = 0
    /\ Len(messages) = 1

\* C19: at most one start is in flight, none while a session exists, and
\* all message calls in flight carry the one current session id.
C19_OneSessionAtATime ==
    /\ startsInFlight \in {0, 1}
    /\ startsInFlight = 1 => (isConnecting /\ ~Truthy(sessionId))
    /\ inflight # <<>> => startsInFlight = 0
    /\ \A i \in DOMAIN inflight :
          inflight[i].sid = sessionId /\ inflight[i].sid \in SessionIds

\* the second start obtained the session and a message call carries its id
C19_Witness ==
    /\ startCalls = 2
    /\ alerts = 0
    /\ sessionId = "s2"
    /\ Len(inflight) = 1
    /\ inflight[1].sid = "s2"

\* C20: a send ends with exactly one outcome, the first matching row of
\* the table: TransportError when the call or a read threw, whatever was
\* buffered; else Success, MalformedResponse or EmptyResponse as the
\* trimmed body decides.  A body that is the marker alone, or the marker
\* and whitespace, is a Success with empty payload.
C20_DecisionTable ==
    [][/\ (lastEvent' = "done" /\ Len(inflight) = 1) =>
             LET inv == inflight[1]
                 p == inv.lenBefore + 2
             IN /\ inflight' = <<>>
                /\ State(messages'[p]) = Expected(inv.body).state
                /\ messages'[p].text = Expected(inv.body).text
                /\ Trim(inv.body) = Marker =>
                      (messages'[p].text = <<>> /\
                       State(messages'[p]) = "Complete")
                /\ (\E n \in 1..Len(inv.body) :
                        /\ \A k \in 1..n : inv.body[k] \in WS
                        /\ StartsWith(Substring(inv.body, n), Marker)) =>
                      State(messages'[p]) = "Complete"
       /\ (lastEvent' = "catch" /\ Len(inflight) = 1) =>
             LET inv == inflight[1]
                 n == Len(messages')
             IN /\ inflight' = <<>>
                /\ \A j \in DOMAIN messages' : messages'[j].id # inv.phId
                /\ State(messages'[n]) = "Error"
                /\ messages'[n].text[1] = "Something went wrong: "]_vars

\* the body was the marker alone or the marker and whitespace: the Bot
\* message is Complete with empty text
C20_Witness ==
    /\ lastEvent = "done"
    /\ Len(messages) = 3
    /\ messages[3].sender = "bot"
    /\ messages[3].text = <<>>
    /\ State(messages[3]) = "Complete"

Completions == {"done", "catch"}

PendingPositions == {i \in DOMAIN messages : State(messages[i]) = "Pending"}

\* C21: the step that ends the network call of a send (end of stream, or
\* the call or a read throwing) releases the latch and leaves no Pending
\* message; no other step does: while the call has not ended the latch
\* stays set and the placeholder stays Pending, there being no timeout and
\* no cancellation.
C21_ReleasedOnlyByCompletion ==
    [][/\ lastEvent' \in Completions =>
             /\ ~isSending'
             /\ NoPending(messages')
             /\ inflight' = <<>>
       /\ (isSending /\ lastEvent' \notin Completions) =>
             /\ isSending'
             /\ Len(inflight') = 1
             /\ messages' = messages
             /\ State(messages'[Len(messages')]) = "Pending"]_vars

\* the second send has ended by an exception: latch free, nothing Pending
C21_Witness ==
    /\ lastEvent = "catch"
    /\ msgCalls = 2
    /\ ~isSending
    /\ NoPending(messages)
    /\ inflight = <<>>

\* C22: the latch is set exactly when the conversation holds a Pending
\* placeholder, and then it holds exactly one.
C22_LatchIffPending ==
    /\ isSending <=> PendingPositions # {}
    /\ Cardinality(PendingPositions) <= 1
    /\ isSending <=> inflight # <<>>

\* a send waits for the body of a non-2xx answer: latch set, one Pending
C22_Witness ==
    /\ isSending
    /\ Cardinality(PendingPositions) = 1
    /\ Len(inflight) = 1
    /\ inflight[1].pc = "text"

\* C23: a message whose isStreaming flag is true has empty text, so no
\* message is ever in the Streaming state.
C23_StreamingHasNoText ==
    \A i \in DOMAIN messages :
        /\ messages[i].isStreaming => messages[i].text = <<>>
        /\ State(messages[i]) # "Streaming"

\* the whole body "data: H" is in the buffer and the placeholder, still
\* flagged isStreaming, has empty text
C23_Witness ==
    /\ lastEvent = "chunk"
    /\ Len(inflight) = 1
    /\ inflight[1].rest = <<>>
    /\ inflight[1].buffer = <<"d", "a", "t", "a", ":", " ", "H">>
    /\ messages[Len(messages)].isStreaming
    /\ messages[Len(messages)].text = <<>>

\* C24: whenever the session id is unset or falsy the conversation is
\* empty, also after a 2xx answer with a missing or empty session_id.
C24_NoSessionEmpty ==
    ~Truthy(sessionId) => messages = <<>>

====
